---- MODULE Spec2Model ----
(***************************************************************************)
(* Inventory dashboard route (src/README.md, lines 151-324): a React       *)
(* Router v7 route whose loader streams the inventory, whose action claims *)
(* one unit of an item, and whose table rows derive an optimistic stock    *)
(* from a keyed fetcher.                                                   *)
(*                                                                         *)
(* The model state is the router state the hooks of the route read         *)
(* (loaderData.inventory, the fetchers map, revalidator.state), the        *)
(* requests in flight (action calls, loader calls), the server's stock,    *)
(* and the rows the components render from the router state.               *)
(*                                                                         *)
(* models/inventory.server (claimStock, getInventory) is not part of the   *)
(* sources at hand; it is modelled from the specification, section 6.      *)
(*                                                                         *)
(* A revalidation is one loader call.  The loader returns at once with the *)
(* promise of getInventory(): when the call returns, loaderData.inventory  *)
(* becomes that pending promise and <Suspense> renders LoadingSkeleton;    *)
(* when the promise settles, <Await> renders the table or ErrorDisplay.    *)
(* The controls of a row are operable while the row is rendered.           *)
(***************************************************************************)
EXTENDS Integers, Sequences, FiniteSets, TLC

\* ---------------------------------------------------------------- bounds
MaxStock == 2      \* largest initial stock of an item
MaxLoads == 5      \* cap on the router's incrementingLoadId
MaxCalls == 2      \* cap on action calls queued for one item

Items == {1, 2}    \* Item.id of the inventory rows

Max(a, b) == IF a >= b THEN a ELSE b

\* ---------------------------------------------------------------- state
VARIABLES
    serverStock,   \* inventory.server: Item.stock of every item
    inventory,     \* loaderData.inventory as <Await> renders it
    revalidation,  \* revalidator.state
    fetchers,      \* router state.fetchers, by fetcher key
    calls,         \* action requests in flight, per itemId (oldest first)
    reads,         \* loader calls in flight
    loadId,        \* the router's incrementingLoadId
    mounted,       \* whether the cells of InventoryTable are mounted
    rows,          \* what InventoryTable shows, per item
    caughtBy,      \* the element that renders a rejected inventory promise
    preStock,      \* history: item.stock in the view when the item's last
                   \* claim began
    initialStock,  \* history: Item.stock of every item at the start
    settledOk,     \* history: per item, the claims whose success reached
                   \* the router
    failedSince    \* history: a fetch or a claim has failed and the user
                   \* has not acted since

vars == <<serverStock, inventory, revalidation, fetchers, calls, reads,
          loadId, mounted, rows, caughtBy, preStock, initialStock, settledOk,
          failedSince>>

\* ------------------------------------------------------- fetcher values
OutOfStock == "Out of stock"
UnknownError == "Unknown error"
Errors == {OutOfStock, UnknownError}

IDLE_FETCHER == [state |-> "idle", formData |-> FALSE, data |-> "none"]

\* fetcher.Form submit: the fetcher carries the submission, keeps old data
SubmittingFetcher(existing) ==
    [state |-> "submitting", formData |-> TRUE, data |-> existing.data]

\* variant: the submission is cleared as soon as the action returns
LoadingFetcher_ClearsFormData(result) ==
    [state |-> "loading", formData |-> FALSE, data |-> result]

\* the action returned: the fetcher keeps the submission while the loaders
\* revalidate, and exposes the action's result
LoadingFetcher(result) ==
    [state |-> "loading", formData |-> TRUE, data |-> result]

\* variant: the submission outlives the revalidation
DoneFetcher_KeepsFormData(f) ==
    [state |-> "idle", formData |-> f.formData, data |-> f.data]

\* revalidation finished: the submission is cleared, the result stays
DoneFetcher(f) ==
    [state |-> "idle", formData |-> FALSE, data |-> f.data]

\* ------------------------------------------------------------ components
\* variant: the stock cell's fetcher has a key of its own
StockCellKey_Own(id) == <<"stock", id>>

\* StockCell: useFetcher({ key: `claim-${item.id}` })
StockCellKey(id) == <<"claim", id>>

\* variant: one key for the fetchers of all rows
ActionCellKey_Shared(id) == <<"claim", 0>>

\* ActionCell: useFetcher({ key: `claim-${item.id}` })
ActionCellKey(id) == <<"claim", id>>

\* useFetcher({ key }): the fetcher of that key, IDLE_FETCHER when none
useFetcher(fs, key) == IF key \in DOMAIN fs THEN fs[key] ELSE IDLE_FETCHER

\* variant: the decrement is tied to fetcher.state "submitting"
StockCell_WhileSubmitting(stock, fetcher) ==
    IF fetcher.state = "submitting" THEN Max(0, stock - 1) ELSE stock

\* variant: the decrement is also applied to a successful result
StockCell_AfterSuccess(stock, fetcher) ==
    IF fetcher.formData \/ fetcher.data = "ok" THEN Max(0, stock - 1) ELSE stock

\* variant: the decrement without Math.max(0, ...)
StockCell_NoClamp(stock, fetcher) ==
    IF fetcher.formData THEN stock - 1 ELSE stock

\* StockCell: optimisticStock
StockCell(stock, fetcher) ==
    IF fetcher.formData THEN Max(0, stock - 1) ELSE stock

\* variant: isSubmitting without the "loading" state
isSubmitting_SubmittingOnly(fetcher) == fetcher.state = "submitting"

\* ActionCell: isSubmitting
isSubmitting(fetcher) == fetcher.state = "submitting" \/ fetcher.state = "loading"

\* ActionCell: hasError
hasError(fetcher) == fetcher.data # "none" /\ fetcher.data # "ok"

\* variant: the button is disabled by the stock alone
ButtonDisabled_StockOnly(stock, fetcher) == stock = 0

\* variant: the button is disabled by the submission alone
ButtonDisabled_SubmittingOnly(stock, fetcher) == isSubmitting(fetcher)

\* variant: the button is enabled again as soon as the action has returned
ButtonDisabled_UntilResponse(stock, fetcher) ==
    stock = 0 \/ fetcher.state = "submitting"

\* ActionCell: <Button disabled=...>
ButtonDisabled(stock, fetcher) == stock = 0 \/ isSubmitting(fetcher)

\* <Await resolve={inventory}>: rows exist only for a resolved inventory
Shown(inv) == IF inv.phase = "Loaded" THEN Items ELSE {}

\* InventoryTable: one StockCell and one ActionCell per item
InventoryTable(inv, fs) ==
    [i \in Shown(inv) |->
        [stock      |-> StockCell(inv.items[i], useFetcher(fs, StockCellKey(i))),
         stockSees  |-> useFetcher(fs, StockCellKey(i)),
         actionSees |-> useFetcher(fs, ActionCellKey(i)),
         disabled   |-> ButtonDisabled(inv.items[i], useFetcher(fs, ActionCellKey(i))),
         loading    |-> isSubmitting(useFetcher(fs, ActionCellKey(i))),
         error      |-> IF hasError(useFetcher(fs, ActionCellKey(i)))
                        THEN useFetcher(fs, ActionCellKey(i)).data ELSE "none"]]

NoItems == [i \in Items |-> 0]

\* variant: unmounting the cells deletes their fetchers at once
DeleteUnmounted_InFlight(isMounted, fs) ==
    [k \in DOMAIN fs |-> IF ~isMounted THEN IDLE_FETCHER ELSE fs[k]]

\* useFetcher's cleanup: a fetcher whose cells are unmounted is deleted
\* once it is idle (a fetcher in flight lives on until it is idle)
DeleteUnmounted(isMounted, fs) ==
    [k \in DOMAIN fs |->
        IF ~isMounted /\ fs[k].state = "idle" THEN IDLE_FETCHER ELSE fs[k]]

\* ----------------------------------------------------------------- Init
\* the document has been served: the loader has run and its promise is
\* being streamed
Init ==
    /\ serverStock \in [Items -> 0..MaxStock]
    /\ inventory = [phase |-> "Loading", items |-> NoItems]
    /\ mounted = FALSE
    /\ revalidation = "idle"
    /\ fetchers = [k \in {ActionCellKey(i) : i \in Items} |-> IDLE_FETCHER]
    /\ calls = [i \in Items |-> << >>]
    /\ reads = {[id |-> 1, origin |-> <<"nav", 0>>, stage |-> "streaming",
                 live |-> TRUE]}
    /\ loadId = 1
    /\ rows = InventoryTable(inventory, fetchers)
    /\ caughtBy = "none"
    /\ preStock = [i \in Items |-> 0]
    /\ initialStock = serverStock
    /\ settledOk = [i \in Items |-> 0]
    /\ failedSince = FALSE

\* ------------------------------------------------------------- helpers
NavOrigin == <<"nav", 0>>

\* <Await resolve={inventory} errorElement={<ErrorDisplay />}>: the element
\* that renders the promise when it has settled in this phase.  A rejection
\* that no errorElement renders is thrown to the route's ErrorBoundary.
Await_NoErrorElement(phase) ==
    IF phase = "Failed" THEN "ErrorBoundary" ELSE "none"
Await(phase) ==
    IF phase = "Failed" THEN "ErrorDisplay" ELSE "none"

RECURSIVE CallsInFlight(_, _)
CallsInFlight(cs, S) ==
    IF S = {} THEN 0
    ELSE LET i == CHOOSE x \in S : TRUE
         IN Len(cs[i]) + CallsInFlight(cs, S \ {i})

\* every call in flight will start one loader call when it returns, so a
\* new request is issued only while a load id is left for it
LoadIdLeft == loadId + CallsInFlight(calls, Items) < MaxLoads

NewRead(id, origin) ==
    [id |-> id, origin |-> origin, stage |-> "called", live |-> TRUE]

\* the loader call in flight that was given this load id
NoRead == [id |-> 0, origin |-> NavOrigin, stage |-> "none", live |-> FALSE]
Read(id) ==
    IF \E r \in reads : r.id = id
    THEN CHOOSE r \in reads : r.id = id
    ELSE NoRead

\* AbortController.abort() of the loader calls of one origin: the request
\* goes on at the server, its result is dropped
Abort(rs, origin) ==
    {[r EXCEPT !.live = (r.live /\ ~(r.origin = origin /\ r.stage = "called"))] :
        r \in rs}

\* abortStaleFetchLoads(landedId): the fetcher revalidations begun before
\* the load that landed
StaleFetchLoads(rs, landedId) ==
    {q \in rs : /\ q.live
                 /\ q.stage = "called"
                 /\ q.origin # NavOrigin
                 /\ q.id < landedId}

\* models/inventory.server claimStock(itemId): the results it can give for
\* an item of this stock, with the stock it leaves
claimStock(stock) ==
    IF stock = 0
    THEN {[result |-> OutOfStock, stock |-> 0]}
    ELSE {[result |-> "ok", stock |-> stock - 1],
          [result |-> UnknownError, stock |-> stock]}

\* models/inventory.server getInventory(): the items, or a rejection
getInventory(stock) ==
    {[phase |-> "Loaded", items |-> stock],
     [phase |-> "Failed", items |-> NoItems]}

\* an error that action() throws instead of returning
Thrown == "thrown"

\* action() without its try/catch: the error of claimStock is thrown
ActionData_NoCatch(result) ==
    IF result = "ok" THEN "ok" ELSE Thrown

\* action(): { success: true, item } for a claim that succeeded, and for a
\* caught error { success: false, error: error.message }, "Unknown error"
\* when what was thrown is not an Error
ActionData(result) ==
    IF result = "ok" THEN "ok"
    ELSE IF result \in Errors THEN result
    ELSE UnknownError

\* ---------------------------------------------------------------- actions
\* The user presses "Claim One" of item i: fetcher.Form submits itemId.
SubmitClaim(i) ==
    /\ i \in DOMAIN rows
    /\ ~rows[i].disabled
    /\ Len(calls[i]) < MaxCalls
    /\ LoadIdLeft
    /\ fetchers' = [fetchers EXCEPT ![ActionCellKey(i)] = SubmittingFetcher(@)]
    /\ calls' = [calls EXCEPT ![i] = Append(@, "sent")]
    /\ reads' = Abort(reads, ActionCellKey(i))
    /\ preStock' = [preStock EXCEPT ![i] = inventory.items[i]]
    /\ rows' = InventoryTable(inventory, fetchers')
    /\ failedSince' = FALSE
    /\ UNCHANGED <<serverStock, inventory, revalidation, loadId, mounted,
                   caughtBy, initialStock, settledOk>>

\* variant: action() calls claimStock twice for one request
Action_ClaimsAgain(i, k) ==
    /\ k \in 1..Len(calls[i])
    /\ calls[i][k] = "sent"
    /\ \E out \in claimStock(serverStock[i]) :
         \E again \in claimStock(out.stock) :
            /\ serverStock' = [serverStock EXCEPT ![i] = again.stock]
            /\ calls' = [calls EXCEPT ![i][k] = ActionData(out.result)]
    /\ UNCHANGED <<inventory, revalidation, fetchers, reads, loadId, mounted,
                   rows, caughtBy, preStock, initialStock, settledOk,
                   failedSince>>

\* The server runs action(): claimStock(itemId), success or caught error.
Action(i, k) ==
    /\ k \in 1..Len(calls[i])
    /\ calls[i][k] = "sent"
    /\ \E out \in claimStock(serverStock[i]) :
         /\ serverStock' = [serverStock EXCEPT ![i] = out.stock]
         /\ calls' = [calls EXCEPT ![i][k] = ActionData(out.result)]
    /\ UNCHANGED <<inventory, revalidation, fetchers, reads, loadId, mounted,
                   rows, caughtBy, preStock, initialStock, settledOk,
                   failedSince>>

\* The action's response reaches the router: the fetcher shows the result
\* and the loaders are called again; an error that the action threw is
\* rendered by the route's ErrorBoundary.  The response of a request that
\* a later submission of the same fetcher aborted is dropped.
ActionReturn(i) ==
    /\ Len(calls[i]) > 0
    /\ Head(calls[i]) # "sent"
    /\ calls' = [calls EXCEPT ![i] = Tail(@)]
    /\ IF Len(calls[i]) = 1
       THEN /\ fetchers' = [fetchers EXCEPT
                              ![ActionCellKey(i)] = LoadingFetcher(Head(calls[i]))]
            /\ loadId' = loadId + 1
            /\ reads' = reads \cup {NewRead(loadId + 1, ActionCellKey(i))}
       ELSE UNCHANGED <<fetchers, loadId, reads>>
    /\ rows' = InventoryTable(inventory, fetchers')
    /\ settledOk' = [settledOk EXCEPT
                       ![i] = IF Head(calls[i]) = "ok" THEN @ + 1 ELSE @]
    /\ failedSince' = (failedSince \/ Head(calls[i]) \in Errors)
    /\ caughtBy' = IF Head(calls[i]) = Thrown THEN "ErrorBoundary" ELSE caughtBy
    /\ UNCHANGED <<serverStock, inventory, revalidation, mounted, preStock,
                   initialStock>>

\* Loader call r returns { inventory: getInventory() }: the pending promise
\* replaces loaderData.inventory, the fetcher that revalidated returns to
\* idle, and the fetcher revalidations begun before r are dropped.  The
\* response of an aborted call is dropped.
LoaderReturn(r) ==
    /\ r \in reads
    /\ r.stage = "called"
    /\ IF ~r.live
       THEN /\ reads' = reads \ {r}
            /\ UNCHANGED <<inventory, revalidation, fetchers, rows, caughtBy>>
       ELSE LET stale == StaleFetchLoads(reads, r.id)
                done  == {q.origin : q \in stale \cup {r}}
                fs    == [k \in DOMAIN fetchers |->
                            IF k \in done /\ fetchers[k].state = "loading"
                            THEN DoneFetcher(fetchers[k]) ELSE fetchers[k]]
            IN  /\ inventory' = [phase |-> "Loading", items |-> NoItems]
                /\ caughtBy' = "none"
                /\ fetchers' = DeleteUnmounted(mounted, fs)
                /\ reads' = {[q EXCEPT !.live = (q.live /\ q.stage = "called"
                                                        /\ q \notin stale)] :
                                q \in reads \ {r}}
                            \cup {[r EXCEPT !.stage = "streaming"]}
                /\ revalidation' = IF r.origin = NavOrigin THEN "idle"
                                   ELSE revalidation
                /\ rows' = InventoryTable(inventory', fetchers')
    /\ UNCHANGED <<serverStock, calls, loadId, mounted, preStock, initialStock,
                   settledOk, failedSince>>

\* GetInventory where a rejection is not rendered: the fallback stays.
GetInventory_KeepsFallback(r) ==
    /\ r \in reads
    /\ r.stage = "streaming"
    /\ reads' = reads \ {r}
    /\ IF ~r.live
       THEN UNCHANGED <<inventory, mounted, fetchers, rows, caughtBy,
                        failedSince>>
       ELSE \E out \in getInventory(serverStock) :
              /\ inventory' = IF out.phase = "Failed" THEN inventory ELSE out
              /\ caughtBy' = "none"
              /\ failedSince' = (failedSince \/ out.phase = "Failed")
              /\ mounted' = (out.phase = "Loaded")
              /\ fetchers' = DeleteUnmounted(mounted', fetchers)
              /\ rows' = InventoryTable(inventory', fetchers')
    /\ UNCHANGED <<serverStock, revalidation, calls, loadId, preStock,
                   initialStock, settledOk>>

\* GetInventory where a rejection calls revalidate() by itself.
GetInventory_AutoRetry(r) ==
    /\ r \in reads
    /\ r.stage = "streaming"
    /\ IF ~r.live
       THEN /\ reads' = reads \ {r}
            /\ UNCHANGED <<inventory, mounted, fetchers, rows, caughtBy,
                           failedSince, revalidation, loadId>>
       ELSE \E out \in getInventory(serverStock) :
              /\ inventory' = out
              /\ caughtBy' = Await(out.phase)
              /\ failedSince' = (failedSince \/ out.phase = "Failed")
              /\ mounted' = (out.phase = "Loaded")
              /\ fetchers' = DeleteUnmounted(mounted', fetchers)
              /\ rows' = InventoryTable(inventory', fetchers')
              /\ IF out.phase = "Failed" /\ LoadIdLeft
                 THEN /\ revalidation' = "loading"
                      /\ loadId' = loadId + 1
                      /\ reads' = (reads \ {r})
                                     \cup {NewRead(loadId + 1, NavOrigin)}
                 ELSE /\ reads' = reads \ {r}
                      /\ UNCHANGED <<revalidation, loadId>>
    /\ UNCHANGED <<serverStock, calls, preStock, initialStock, settledOk>>

\* The promise of loader call r settles: getInventory() gave the items or
\* rejected.  <Await> renders it when it is still loaderData.inventory.
GetInventory(r) ==
    /\ r \in reads
    /\ r.stage = "streaming"
    /\ reads' = reads \ {r}
    /\ IF ~r.live
       THEN UNCHANGED <<inventory, mounted, fetchers, rows, caughtBy,
                        failedSince>>
       ELSE \E out \in getInventory(serverStock) :
              /\ inventory' = out
              /\ caughtBy' = Await(out.phase)
              /\ failedSince' = (failedSince \/ out.phase = "Failed")
              /\ mounted' = (out.phase = "Loaded")
              /\ fetchers' = DeleteUnmounted(mounted', fetchers)
              /\ rows' = InventoryTable(inventory', fetchers')
    /\ UNCHANGED <<serverStock, revalidation, calls, loadId, preStock,
                   initialStock, settledOk>>

\* ErrorDisplay: the Retry button (disabled while it shows its spinner) or
\* the banner's dismiss control calls revalidator.revalidate(); so does the
\* Try Again button of the route's ErrorBoundary.
Controls == {"Retry", "Dismiss", "TryAgain"}

\* the element that renders control c
RenderedBy(c) == IF c = "TryAgain" THEN "ErrorBoundary" ELSE "ErrorDisplay"

Revalidate(c) ==
    /\ caughtBy = RenderedBy(c)
    /\ c = "Retry" => revalidation # "loading"
    /\ LoadIdLeft
    /\ revalidation' = "loading"
    /\ loadId' = loadId + 1
    /\ reads' = Abort(reads, NavOrigin) \cup {NewRead(loadId + 1, NavOrigin)}
    /\ failedSince' = FALSE
    /\ UNCHANGED <<serverStock, inventory, fetchers, calls, mounted, rows,
                   caughtBy, preStock, initialStock, settledOk>>

Next ==
    \/ \E i \in Items : SubmitClaim(i)
    \/ \E i \in Items : \E k \in 1..MaxCalls : Action(i, k)
    \/ \E i \in Items : ActionReturn(i)
    \/ \E id \in 1..MaxLoads : LoaderReturn(Read(id))
    \/ \E id \in 1..MaxLoads : GetInventory(Read(id))
    \/ \E c \in Controls : Revalidate(c)

Spec == Init /\ [][Next]_vars

TypeOK ==
    /\ serverStock \in [Items -> 0..MaxStock]
    /\ inventory.phase \in {"Loading", "Loaded", "Failed"}
    /\ revalidation \in {"idle", "loading"}
    /\ loadId \in 1..MaxLoads
    /\ mounted \in BOOLEAN
    /\ \A k \in DOMAIN fetchers :
         fetchers[k].state \in {"idle", "submitting", "loading"}
    /\ \A r \in reads : r.stage \in {"called", "streaming"}
    /\ Cardinality({r \in reads : r.live /\ r.stage = "streaming"}) <= 1
    /\ inventory.phase = "Loaded" => mounted
    /\ caughtBy \in {"none", "ErrorDisplay", "ErrorBoundary"}
    /\ caughtBy = "ErrorDisplay" <=> inventory.phase = "Failed"
    /\ initialStock \in [Items -> 0..MaxStock]
    /\ settledOk \in [Items -> 0..MaxLoads]
    /\ failedSince \in BOOLEAN

\* ================================================================ claims
\* the fetcher of key claim-<id>, and whether it is Submitting
ClaimFetcher(i) == useFetcher(fetchers, <<"claim", i>>)
Submitting(i) == ClaimFetcher(i).state \in {"submitting", "loading"}
\* a claim of item i begins in this step
BeginClaim(i) == Len(calls'[i]) > Len(calls[i])

\* C1: the stock shown for an item is max(0, stock - 1) while the fetcher
\* claim-<id> carries a request payload and the authoritative stock
\* otherwise; right after a claim begins on stock s > 0 it is s - 1.
C1_Projection ==
    /\ [](\A i \in DOMAIN rows :
            rows[i].stock = IF ClaimFetcher(i).formData
                            THEN Max(0, inventory.items[i] - 1)
                            ELSE inventory.items[i])
    /\ [][\A i \in Items :
            (BeginClaim(i) /\ inventory.items[i] > 0)
                => /\ i \in DOMAIN rows'
                   /\ rows'[i].stock = inventory.items[i] - 1]_vars

\* the largest stock shows one less while the claim is in flight
C1_Witness ==
    \E i \in DOMAIN rows :
        /\ inventory.items[i] = MaxStock
        /\ ClaimFetcher(i).formData
        /\ rows[i].stock = MaxStock - 1

\* C2: at most one claim mutation of an item is in flight, and no claim is
\* begun for an item whose fetcher is submitting or loading.
C2_Serialized ==
    /\ [](\A i \in Items : Len(calls[i]) <= 1)
    /\ [][\A i \in Items : Submitting(i) => ~BeginClaim(i)]_vars

\* a claim is in flight on a row with stock left, and its button is disabled
C2_Witness ==
    \E i \in DOMAIN rows :
        /\ Len(calls[i]) = 1
        /\ ClaimFetcher(i).state = "submitting"
        /\ inventory.items[i] > 0
        /\ rows[i].disabled

\* C3: after a failed claim, once the fetcher is idle with the error and
\* the inventory is shown again, the row shows the stock it showed before
\* the claim, the server holds that stock, and the error text is inline.
C3_Rollback ==
    \A i \in DOMAIN rows :
        (ClaimFetcher(i).state = "idle" /\ ClaimFetcher(i).data \in Errors)
            => /\ rows[i].stock = preStock[i]
               /\ serverStock[i] = preStock[i]
               /\ rows[i].error = ClaimFetcher(i).data

\* stock 1, the claim failed, the row shows 1 again with the error
C3_Witness ==
    \E i \in DOMAIN rows :
        /\ ClaimFetcher(i).state = "idle"
        /\ ClaimFetcher(i).data \in Errors
        /\ preStock[i] = 1
        /\ rows[i].stock = 1
        /\ rows[i].error \in Errors

\* the server runs every action, and every response is delivered
FairSpec ==
    /\ Spec
    /\ WF_vars(\E i \in Items : \E k \in 1..MaxCalls : Action(i, k))
    /\ WF_vars(\E i \in Items : ActionReturn(i))
    /\ WF_vars(\E id \in 1..MaxLoads : LoaderReturn(Read(id)))
    /\ WF_vars(\E id \in 1..MaxLoads : GetInventory(Read(id)))

\* C4: a claim that is Submitting is eventually not Submitting; after a
\* successful claim, once its revalidation is over and the inventory is
\* shown, the row shows the server's stock, which is the pre-claim stock
\* minus one, and the idle fetcher carries no payload.
C4_Settled ==
    /\ [](\A i \in DOMAIN rows :
            (ClaimFetcher(i).state = "idle" /\ ClaimFetcher(i).data = "ok")
                => /\ rows[i].stock = serverStock[i]
                   /\ serverStock[i] = preStock[i] - 1
                   /\ ~ClaimFetcher(i).formData)
    /\ \A i \in Items : Submitting(i) ~> ~Submitting(i)

\* the largest stock was claimed and the row shows one less from the
\* server
C4_Witness ==
    \E i \in DOMAIN rows :
        /\ ClaimFetcher(i).state = "idle"
        /\ ClaimFetcher(i).data = "ok"
        /\ preStock[i] = MaxStock
        /\ rows[i].stock = MaxStock - 1
        /\ serverStock[i] = MaxStock - 1

\* C5: while an item's stock in the view is 0 its claim button is disabled
\* and no claim is begun for it; none is begun for a row that is not shown.
C5_NoClaimAtZero ==
    /\ [](\A i \in DOMAIN rows :
            (inventory.items[i] = 0 \/ rows[i].stock = 0) => rows[i].disabled)
    /\ [][\A i \in Items :
            (i \notin DOMAIN rows \/ inventory.items[i] = 0) => ~BeginClaim(i)]_vars

\* an idle row with stock 0 is shown with its button disabled
C5_Witness ==
    \E i \in DOMAIN rows :
        /\ inventory.items[i] = 0
        /\ ClaimFetcher(i).state = "idle"
        /\ rows[i].disabled

\* C6: at most one inventory read whose outcome the view waits for is in
\* flight.
C6_OneRead == Cardinality({r \in reads : r.live}) <= 1

\* C7: the stock cell and the action cell of a row see the same fetcher,
\* and the stock shown is the projection of the fetcher the action cell
\* sees.
C7_SharedKey ==
    \A i \in DOMAIN rows :
        /\ rows[i].stockSees = rows[i].actionSees
        /\ rows[i].stock = IF rows[i].actionSees.formData
                           THEN Max(0, inventory.items[i] - 1)
                           ELSE inventory.items[i]

\* both cells of a row see the submission of its claim
C7_Witness ==
    \E i \in DOMAIN rows :
        /\ rows[i].stockSees.state = "submitting"
        /\ rows[i].actionSees.state = "submitting"
        /\ rows[i].stock = inventory.items[i] - 1

\* C8 as stated: a submitting fetcher carries the payload, and no fetcher
\* holds the result of the current attempt together with the payload.
C8_PayloadClearedOnSettle ==
    \A i \in Items :
        /\ ClaimFetcher(i).state = "submitting" => ClaimFetcher(i).formData
        /\ ~(/\ ClaimFetcher(i).state = "loading"
             /\ ClaimFetcher(i).data # "none"
             /\ ClaimFetcher(i).formData)

\* C8 as amended: a fetcher that is submitting or loading carries the
\* payload, a loading fetcher holds the result of the current attempt as
\* well, and an idle fetcher carries no payload.
C8_PayloadUntilIdle ==
    \A i \in Items :
        /\ Submitting(i) => ClaimFetcher(i).formData
        /\ ClaimFetcher(i).state = "loading"
              => ClaimFetcher(i).data \in {"ok"} \cup Errors
        /\ ClaimFetcher(i).state = "idle" => ~ClaimFetcher(i).formData

\* a loading fetcher with the error of its attempt and the payload
C8_Witness ==
    \E i \in Items :
        /\ ClaimFetcher(i).state = "loading"
        /\ ClaimFetcher(i).data \in Errors
        /\ ClaimFetcher(i).formData

C10_ReadsLeaveClaims ==
    [][calls' = calls
         => \A i \in Items :
              Len(calls[i]) > 0
                => /\ ClaimFetcher(i)' = ClaimFetcher(i)
                   /\ ClaimFetcher(i).state = "submitting"
                   /\ serverStock'[i] = serverStock[i]]_vars

\* a claim is still in flight after a revalidation ended Failed
C10_Witness ==
    \E i \in Items :
        /\ Len(calls[i]) > 0
        /\ ClaimFetcher(i).state = "submitting"
        /\ inventory.phase = "Failed"

\* C11: the loading skeleton is shown exactly while the view waits for an
\* inventory promise that has not settled; when that promise settles the
\* phase is Loaded with the server's items or Failed with ErrorDisplay and
\* its retry control; and every Loading phase ends in Loaded or Failed.
C11_LoadingEnds ==
    /\ [](inventory.phase = "Loading"
            <=> \E r \in reads : r.live /\ r.stage = "streaming")
    /\ [][\A r \in reads :
            (r.live /\ r.stage = "streaming" /\ \A q \in reads' : q.id # r.id)
               => \/ /\ inventory'.phase = "Loaded"
                     /\ inventory'.items = serverStock
                     /\ DOMAIN rows' = Items
                  \/ /\ inventory'.phase = "Failed"
                     /\ caughtBy' = RenderedBy("Retry")]_vars
    /\ inventory.phase = "Loading" ~> inventory.phase \in {"Loaded", "Failed"}

\* the first load failed and the one retry after it gave the table
C11_Witness ==
    /\ inventory.phase = "Loaded"
    /\ loadId = 2
    /\ reads = {}
    /\ preStock = [i \in Items |-> 0]
    /\ DOMAIN rows = Items

\* C12: a rejected inventory promise, of the first load or of a
\* revalidation, is rendered by ErrorDisplay inside the Card of Dashboard:
\* the route's ErrorBoundary never replaces the page, and the rejection
\* changes nothing but the content region (no call, no fetcher in flight,
\* no server stock).
C12_ScopedTier1 ==
    /\ [](caughtBy # "ErrorBoundary")
    /\ [](inventory.phase = "Failed" => caughtBy = "ErrorDisplay")
    /\ [][(inventory'.phase = "Failed" /\ inventory.phase # "Failed")
            => /\ caughtBy' = "ErrorDisplay"
               /\ calls' = calls
               /\ serverStock' = serverStock
               /\ revalidation' = revalidation
               /\ \A i \in Items :
                    Submitting(i) => ClaimFetcher(i)' = ClaimFetcher(i)]_vars

\* the revalidation after a successful claim was rejected: ErrorDisplay
C12_Witness ==
    /\ inventory.phase = "Failed"
    /\ caughtBy = "ErrorDisplay"
    /\ reads = {}
    /\ \E i \in Items : settledOk[i] = 1

\* a step of the user: a Claim One click or a revalidate control
UserStep ==
    \/ \E i \in Items : SubmitClaim(i)
    \/ \E c \in Controls : Revalidate(c)
\* a loader call or an action call is issued in this step
NewRequest == loadId' > loadId \/ \E i \in Items : BeginClaim(i)

\* C13 as stated: once a fetch or a claim has failed, no loader call and no
\* action call is issued before the next step of the user.
C13_NoRequestUntilUserStep ==
    [][(failedSince /\ NewRequest) => UserStep]_vars

\* C13 as amended: an action call is issued only by a Claim One click; a
\* loader call is issued only by a revalidate control or, one per response,
\* by the return of an action call, failed or not; the step in which a
\* fetch or a claim fails issues no request of the kind that failed.
C13_NoAutomaticRetry ==
    [][/\ \A i \in Items : BeginClaim(i) => SubmitClaim(i)
       /\ loadId' > loadId
            => /\ loadId' = loadId + 1
               /\ \/ \E c \in Controls : Revalidate(c)
                  \/ \E i \in Items : ActionReturn(i)
       /\ (inventory'.phase = "Failed" /\ inventory.phase # "Failed")
            => loadId' = loadId /\ calls' = calls
       /\ \A i \in Items :
            (Len(calls[i]) > 0 /\ Head(calls[i]) \in Errors
               /\ Len(calls'[i]) < Len(calls[i]))
                 => \A j \in Items : ~BeginClaim(j)]_vars

\* a claim has failed and, with no step of the user since, the loader call
\* that follows it is in flight
C13_Witness ==
    /\ failedSince
    /\ \E i \in Items :
         /\ ClaimFetcher(i).state = "loading"
         /\ ClaimFetcher(i).data \in Errors
         /\ \E r \in reads : r.live /\ r.origin = ActionCellKey(i)

\* the response of a failed claim of item a reaches the router in this step
ClaimFails(a) ==
    /\ Len(calls[a]) > 0
    /\ Head(calls[a]) \notin {"sent", "ok"}
    /\ calls'[a] = Tail(calls[a])

\* C14: a failed claimStock reaches the router as the error value of that
\* item's fetcher and is shown as the inline text of that item's row; that
\* step leaves the row, the error and the fetcher of every other item
\* alone, and leaves the fetch phase, ErrorDisplay and ErrorBoundary as
\* they were; a row shows an error only for its own fetcher's error value.
C14_ErrorInRow ==
    /\ [][\A a \in Items :
            ClaimFails(a)
               => /\ ClaimFetcher(a)'.data = Head(calls[a])
                  /\ Head(calls[a]) \in Errors
                  /\ a \in DOMAIN rows' => rows'[a].error = Head(calls[a])
                  /\ inventory' = inventory
                  /\ caughtBy' = caughtBy
                  /\ \A b \in Items \ {a} :
                       /\ ClaimFetcher(b)' = ClaimFetcher(b)
                       /\ b \in DOMAIN rows
                            => /\ b \in DOMAIN rows'
                               /\ rows'[b].error = rows[b].error]_vars
    /\ [](\A i \in DOMAIN rows :
            rows[i].error # "none"
               => /\ rows[i].error = ClaimFetcher(i).data
                  /\ ClaimFetcher(i).data \in Errors)

\* the claim of one item failed: its row shows the error, the other row
\* shows none, and the table is still shown
C14_Witness ==
    /\ DOMAIN rows = Items
    /\ caughtBy = "none"
    /\ \E a \in Items :
         /\ rows[a].error \in Errors
         /\ \A b \in Items \ {a} : rows[b].error = "none"

\* C15: once the fetcher of an item holds the error of a settled claim, it
\* holds that error after every step that is not a new claim of the item
\* (so the row shows it whenever the table is shown); and a row whose
\* fetcher is idle with a successful result shows no error and no spinner.
C15_ErrorStays ==
    /\ [][\A i \in Items :
            (/\ ClaimFetcher(i).state \in {"loading", "idle"}
             /\ ClaimFetcher(i).data \in Errors
             /\ ~BeginClaim(i))
               => ClaimFetcher(i)'.data = ClaimFetcher(i).data]_vars
    /\ [](\A i \in DOMAIN rows :
            (ClaimFetcher(i).state = "idle" /\ ClaimFetcher(i).data = "ok")
               => rows[i].error = "none" /\ ~rows[i].loading)

\* C16: the stock shown in every row is at least 0; a row whose fetcher
\* carries a request payload while the view's stock of the item is 0 shows
\* 0.
C16_NonNegative ==
    \A i \in DOMAIN rows :
        /\ rows[i].stock >= 0
        /\ (rows[i].stockSees.formData /\ inventory.items[i] = 0)
              => rows[i].stock = 0

\* a claim is in flight on a row whose stock in the view is 0: 0 is shown
C16_Witness ==
    \E i \in DOMAIN rows :
        /\ rows[i].stockSees.formData
        /\ inventory.items[i] = 0
        /\ rows[i].stock = 0

\* C17: in every row the stock cell sees a request payload exactly when
\* the action cell counts the claim as in flight (fetcher.state submitting
\* or loading); a row that shows the optimistic decrement has its button
\* disabled and its spinner on.
C17_CellsAgree ==
    \A i \in DOMAIN rows :
        /\ rows[i].stockSees.formData
              <=> rows[i].actionSees.state \in {"submitting", "loading"}
        /\ rows[i].stockSees.formData <=> rows[i].loading
        /\ rows[i].stock < inventory.items[i] => rows[i].disabled

\* the action has returned and the revalidation has not: the row still
\* shows the decrement and its button is disabled
C17_Witness ==
    \E i \in DOMAIN rows :
        /\ rows[i].actionSees.state = "loading"
        /\ rows[i].stock = inventory.items[i] - 1
        /\ rows[i].loading
        /\ rows[i].disabled

\* a successful result of item i's claim in flight: the server has taken
\* the unit, the response has not reached the router or has just done so
ClaimedAtServer(i) ==
    \/ Len(calls[i]) > 0 /\ Head(calls[i]) = "ok"
    \/ ClaimFetcher(i).state = "loading" /\ ClaimFetcher(i).data = "ok"

\* C18: no row shows one claim as a decrement of two: while the fetcher of
\* a row carries a payload and the server has taken the unit of that
\* claim, the row shows the stock from before the claim minus one, which
\* is the server's stock.
C18_NoDoubleDecrement ==
    \A i \in DOMAIN rows :
        (rows[i].stockSees.formData /\ ClaimedAtServer(i))
            => /\ rows[i].stock = preStock[i] - 1
               /\ rows[i].stock = serverStock[i]

OkInFlight(i) == Cardinality({k \in 1..Len(calls[i]) : calls[i][k] = "ok"})

\* C20: a Claim One click sends one action request, the server runs
\* claimStock once for it, and a request that has run is not run again; so
\* the server stock of every item is its initial stock minus its claims
\* that succeeded (settled, or run with the response in flight), and is
\* never negative.
C20_StockAccounting ==
    /\ [](\A i \in Items :
            /\ serverStock[i]
                 = initialStock[i] - settledOk[i] - OkInFlight(i)
            /\ calls[i] = << >>
                 => serverStock[i] = initialStock[i] - settledOk[i]
            /\ serverStock[i] >= 0)
    /\ [][\A i \in Items :
            /\ BeginClaim(i) => calls'[i] = Append(calls[i], "sent")
            /\ serverStock'[i] # serverStock[i]
                 => /\ serverStock'[i] = serverStock[i] - 1
                    /\ \E k \in 1..Len(calls[i]) :
                         /\ calls[i][k] = "sent"
                         /\ calls'[i] = [calls[i] EXCEPT ![k] = "ok"]
            /\ Len(calls'[i]) = Len(calls[i])
                 => \A k \in 1..Len(calls[i]) :
                      calls[i][k] # "sent" => calls'[i][k] = calls[i][k]]_vars

\* two claims of an item have settled Ok and none is in flight: the server
\* holds two less than at the start
C20_Witness ==
    \E i \in Items :
        /\ initialStock[i] = MaxStock
        /\ settledOk[i] = 2
        /\ calls[i] = << >>
        /\ serverStock[i] = MaxStock - 2

====
